---- MODULE Spec2Model ----
(***************************************************************************)
(* Model of the npm feed of package-feeds (feeds/npm/npm.go): one call of  *)
(* Feed.Latest(cutoff), in discovery mode (fetchAllPackages) or in         *)
(* watch-list mode (fetchCriticalPackages), with one goroutine per package *)
(* and the two unbuffered channels packageChannel and errChannel.          *)
(***************************************************************************)
EXTENDS Integers, Sequences, FiniteSets, TLC

VARIABLES
    packages,       \* feed.packages: Nil, or the configured list of names
    cutoff,         \* the argument of Latest
    rss,            \* what the registry answers on /-/rss
    registry,       \* what the registry answers on /<pkgTitle>
    pc,             \* position of the goroutine running Latest
    packageEvents,  \* fetchAllPackages: the decoded feed entries
    uniquePackages, \* fetchAllPackages: title -> number of mentions
    tasks,          \* the goroutines started by the dispatch loop
    i,              \* the counter of the receive loop
    pkgs,           \* pkgs of the aggregator, then of Latest
    errs,           \* errs of the aggregator, then of Latest
    alerted,        \* calls of lossyFeedAlerter.ProcessPackages
    ret,            \* what Latest returned
    requests,       \* history: path -> number of GET requests made for it
    aggregated      \* history: pkgs as the aggregator returned it

vars == <<packages, cutoff, rss, registry, pc, packageEvents, uniquePackages,
          tasks, i, pkgs, errs, alerted, ret, requests, aggregated>>

----------------------------------------------------------------------------
(* Bounds of the model *)

MaxTime == 2        \* publish timestamps are 1..MaxTime, the cutoff 0..MaxTime
MaxFeed == 3        \* most entries in one feed pull
MaxList == 2        \* most entries in a configured package list

Names == {"FooPackage", "QuxPackage"}
Versions == {"1.0", "1.1"}
Times == 1..MaxTime

\* A pointer is nil or points to a value.
Nil == <<>>
Ptr(x) == <<x>>
Deref(p) == p[1]

FeedName == "npm"
rssPath == "/-/rss"

----------------------------------------------------------------------------
(* Registry documents *)

\* A JSON value of the "time" map: a string that is an RFC3339 instant, a
\* string that is not, or a value that is no string (an object).
TimeValue(t) == [kind |-> "rfc3339", t |-> t]
BadString == [kind |-> "string", t |-> 0]
Object == [kind |-> "object", t |-> 0]

BookKeeping == {"created", "modified"}

\* The "time" map of a published or unpublished package: the versions in vs,
\* the two bookkeeping stamps, and the unpublished marker when unp.
TimeMap(vs, unp) ==
    [k \in DOMAIN vs \cup BookKeeping \cup (IF unp THEN {"unpublished"} ELSE {}) |->
        IF k \in DOMAIN vs THEN vs[k]
        ELSE IF k = "unpublished" THEN Object
        ELSE TimeValue(1)]

NoTimeMap == [k \in {} |-> Object]

\* Version maps with well-formed timestamps.
VersionMaps == UNION {[VS -> {TimeValue(t) : t \in Times}] : VS \in SUBSET Versions}

\* The versions an unpublished package may still list beside its marker.
WithdrawnMaps == UNION {[VS -> {TimeValue(1)}] : VS \in SUBSET Versions}

\* The answers of GET /<pkgTitle>.
OkResponses ==
    {[status |-> "ok", time |-> TimeMap(vs, FALSE)] : vs \in VersionMaps}
    \cup {[status |-> "ok", time |-> TimeMap(vs, TRUE)] : vs \in WithdrawnMaps}
ErrResponses ==
    {[status |-> s, time |-> NoTimeMap] : s \in {"connfail", "404", "badjson", "notime"}}
Responses == OkResponses \cup ErrResponses

\* Version maps whose timestamps may be malformed: each value is an instant
\* (the oldest or the newest), a string that is no instant, or no string.
AnyValues == {TimeValue(1), TimeValue(MaxTime), BadString, Object}
AnyVersionMaps == UNION {[VS -> AnyValues] : VS \in SUBSET Versions}

\* The answers of GET /<pkgTitle> when documents may be malformed: a time
\* map of any values, an unpublished one listing versions that are no
\* strings, or a missing package.
AnyResponses ==
    {[status |-> "ok", time |-> TimeMap(vs, FALSE)] : vs \in AnyVersionMaps}
    \cup {[status |-> "ok", time |-> TimeMap(vs, TRUE)] :
             vs \in UNION {[VS -> {Object}] : VS \in SUBSET Versions}}
    \cup {[status |-> "404", time |-> NoTimeMap]}

\* The answers of GET /-/rss: the titles of the entries, or a failure.
RECURSIVE SeqsUpTo(_, _)
SeqsUpTo(S, n) ==
    IF n = 0 THEN {<<>>}
    ELSE LET shorter == SeqsUpTo(S, n - 1)
         IN  shorter \cup {Append(s, x) : s \in {q \in shorter : Len(q) = n - 1}, x \in S}

RssResponses ==
    {[status |-> "ok", titles |-> s] : s \in SeqsUpTo(Names, MaxFeed)}
    \cup {[status |-> s, titles |-> <<>>] : s \in {"connfail", "404", "badxml"}}

----------------------------------------------------------------------------
(* Errors: every error value is a record of its type, the package name it  *)
(* carries and the sentinel or cause it wraps.                             *)

Error(type, name, err) == [type |-> type, Name |-> name, Err |-> err]

errJSON == "errJSON"
errUnpublished == "errUnpublished"
ErrNoPackagesPolled == Error("ErrNoPackagesPolled", "", "ErrNoPackagesPolled")
NoError == Error("nil", "", "")

\* errors.Is(err, target): the sentinel at the end of the chain err wraps.
ErrorsIs(err, target) == err.Err = target

\* Mutant of PackagePollError: the error is passed on without its package.
PackagePollErrorBare(name, err) == err

\* feeds.PackagePollError{Name: name, Err: err}
PackagePollError(name, err) == Error("PackagePollError", name, err.Err)

\* feeds.NewPackage(created, name, version, feed)
NewPackage(created, name, version, feed) ==
    [Name |-> name, Version |-> version, CreatedDate |-> created, Type |-> feed]

----------------------------------------------------------------------------
(* sort.SliceStable with less(i, j) = s[j].CreatedDate.Before(s[i].CreatedDate) *)

\* Mutant of Less: the comparison the other way round, oldest first.
LessAscending(a, b) == a.CreatedDate < b.CreatedDate

Less(a, b) == b.CreatedDate < a.CreatedDate

Min(S) == CHOOSE x \in S : \A y \in S : x <= y

\* Mutant of InsertStable: x goes before the elements of equal date too.
InsertUnstable(s, x) ==
    LET notNewer == {j \in 1..Len(s) : ~Less(s[j], x)}
    IN  IF notNewer = {} THEN Append(s, x)
        ELSE SubSeq(s, 1, Min(notNewer) - 1) \o <<x>> \o SubSeq(s, Min(notNewer), Len(s))

\* x, met after the elements of s, goes before the first element it is
\* strictly newer than, and after every element of equal date.
InsertStable(s, x) ==
    LET older == {j \in 1..Len(s) : Less(x, s[j])}
    IN  IF older = {} THEN Append(s, x)
        ELSE SubSeq(s, 1, Min(older) - 1) \o <<x>> \o SubSeq(s, Min(older), Len(s))

RECURSIVE SliceStable(_)
SliceStable(s) ==
    IF Len(s) = 0 THEN <<>>
    ELSE InsertStable(SliceStable(SubSeq(s, 1, Len(s) - 1)), s[Len(s)])

----------------------------------------------------------------------------
(* fetchPackage *)

\* Mutant of DeleteKey: the key is left in the map.
DeleteKeyNot(m, key) == m

\* delete(m, key)
DeleteKey(m, key) == [k \in DOMAIN m \ {key} |-> m[k]]

\* The orders in which a range loop may visit the keys of a Go map.
RangeOrders(m) ==
    LET n == Cardinality(DOMAIN m)
    IN  {o \in [1..n -> DOMAIN m] : \A a, b \in 1..n : o[a] = o[b] => a = b}

Result(slice, err) == [panic |-> FALSE, pkgs |-> slice, err |-> err]
Panic == [panic |-> TRUE, pkgs |-> <<>>, err |-> NoError]

\* The loop over the version map, visiting its keys in the given order from
\* position n on: a value that is no string panics in timestamp.(string), a
\* string that time.Parse rejects returns the error, any other is appended.
RECURSIVE ParseVersions(_, _, _, _, _)
ParseVersions(versions, order, n, pkgTitle, versionSlice) ==
    IF n > Len(order) THEN Result(SliceStable(versionSlice), NoError)
    ELSE LET version == order[n]
             timestamp == versions[version]
         IN  IF timestamp.kind = "object" THEN Panic
             ELSE IF timestamp.kind # "rfc3339"
                  THEN Result(<<>>, Error("ParseError", "", "parsing time"))
             ELSE ParseVersions(versions, order, n + 1, pkgTitle,
                      Append(versionSlice,
                          [Title |-> pkgTitle, CreatedDate |-> timestamp.t,
                           Version |-> version]))

\* The outcomes of fetchPackage(baseURL, pkgTitle) when the registry answers
\* resp: one per order in which the range loop may visit the versions.
fetchPackage(resp, pkgTitle) ==
    IF resp.status = "connfail"
    THEN {Result(<<>>, Error("url.Error", "", "connfail"))}
    ELSE IF resp.status = "404"
    THEN {Result(<<>>, Error("fmt.wrapError", "", "404"))}
    ELSE IF resp.status = "badjson" \/ resp.status = "notime"
    THEN {Result(<<>>, Error("fmt.wrapError", pkgTitle, errJSON))}
    ELSE IF "unpublished" \in DOMAIN resp.time
    THEN {Result(<<>>, Error("fmt.wrapError", pkgTitle, errUnpublished))}
    ELSE LET versions == DeleteKey(DeleteKey(resp.time, "created"), "modified")
         IN  {ParseVersions(versions, order, 1, pkgTitle, <<>>) :
                 order \in RangeOrders(versions)}

----------------------------------------------------------------------------
(* Slices *)

\* The capacity of a slice grown from []*Package{} by n single appends.
RECURSIVE Cap(_)
Cap(n) == IF n <= 1 THEN n ELSE 2 * Cap((n + 1) \div 2)

NilPackage == [Title |-> "nil", CreatedDate |-> 0, Version |-> "nil"]

\* Mutant of SliceTo: the slice is not cut.
SliceToWhole(s, n) == [panic |-> FALSE, slice |-> s]

\* s[:n]: within the length a prefix, within the capacity the slice
\* followed by the nil pointers of the backing array, beyond it a panic.
SliceTo(s, n) ==
    IF n <= Len(s) THEN [panic |-> FALSE, slice |-> SubSeq(s, 1, n)]
    ELSE IF n <= Cap(Len(s))
         THEN [panic |-> FALSE,
               slice |-> s \o [k \in 1..(n - Len(s)) |-> NilPackage]]
    ELSE [panic |-> TRUE, slice |-> <<>>]

----------------------------------------------------------------------------
(* The state before Latest is called *)

Task(pkgTitle, count) ==
    [pkgTitle |-> pkgTitle, count |-> count, pc |-> "fetchPackage",
     pkgs |-> <<>>, err |-> NoError]

PackageLists == SeqsUpTo(Names, MaxList)

\* The titles a call can ask the registry for.
Asked(list, feed) ==
    IF list = Nil THEN {feed.titles[k] : k \in 1..Len(feed.titles)}
    ELSE {Deref(list)[k] : k \in 1..Len(Deref(list))}

\* The registry's answers are fixed for the call. A title the call never asks
\* for answers 404, and the feed of a call with a package list, which is
\* never fetched, is empty: one state per input the call can tell apart.
\* The paths a call can request: the feed and one document per package.
Paths == Names \cup {rssPath}

\* Latest is about to run: nothing fetched, started or collected yet.
Start ==
    /\ pc = "Latest"
    /\ packageEvents = <<>>
    /\ uniquePackages = <<>>
    /\ tasks = <<>>
    /\ i = 0
    /\ pkgs = <<>>
    /\ errs = <<>>
    /\ alerted = <<>>
    /\ ret = [pkgs |-> <<>>, errs |-> <<>>]
    /\ requests = [p \in Paths |-> 0]
    /\ aggregated = <<>>

Init ==
    /\ packages \in {Nil} \cup {Ptr(l) : l \in PackageLists}
    /\ cutoff \in 0..MaxTime
    /\ rss \in RssResponses
    /\ packages # Nil => rss = [status |-> "ok", titles |-> <<>>]
    /\ registry \in [Names -> Responses]
    /\ \A p \in Names \ Asked(packages, rss) : registry[p].status = "404"
    /\ Start

----------------------------------------------------------------------------
(* fetchAllPackages *)

\* Mutant of fetchPackageEvents: the response status is not checked.
fetchPackageEventsUnchecked(resp) ==
    IF resp.status = "connfail"
    THEN [events |-> <<>>, err |-> [type |-> "url.Error", Name |-> "", Err |-> "connfail"]]
    ELSE [events |-> resp.titles, err |-> [type |-> "nil", Name |-> "", Err |-> ""]]

\* fetchPackageEvents(baseURL): the entries of the feed, or its error.
fetchPackageEvents(resp) ==
    IF resp.status = "connfail"
    THEN [events |-> <<>>, err |-> Error("url.Error", "", "connfail")]
    ELSE IF resp.status = "404"
    THEN [events |-> <<>>, err |-> Error("fmt.wrapError", "", "404")]
    ELSE IF resp.status = "badxml"
    THEN [events |-> <<>>, err |-> Error("xml.SyntaxError", "", "badxml")]
    ELSE [events |-> resp.titles, err |-> NoError]

\* uniquePackages[pkg.Title]++ over the events: title -> number of mentions.
CountTitles(events) ==
    [t \in {events[k] : k \in 1..Len(events)} |->
        Cardinality({k \in 1..Len(events) : events[k] = t})]

\* Latest calls fetchAllPackages, which fetches the feed and returns at once
\* when that fails.
FetchPackageEvents ==
    /\ pc = "Latest"
    /\ packages = Nil
    /\ LET r == fetchPackageEvents(rss)
       IN  IF r.err # NoError
           THEN /\ errs' = Append(errs, r.err)
                /\ pc' = "returned"
                /\ UNCHANGED packageEvents
           ELSE /\ packageEvents' = r.events
                /\ pc' = "dispatchAll"
                /\ UNCHANGED errs
    /\ requests' = [requests EXCEPT ![rssPath] = @ + 1]
    /\ UNCHANGED <<aggregated, packages, cutoff, rss, registry, uniquePackages,
                   tasks, i, pkgs, alerted, ret>>

\* Mutant of AllPackagesGoroutines: one goroutine per event, not per title.
AllPackagesGoroutinesPerEvent(events) ==
    [k \in 1..Len(events) |-> Task(events[k], CountTitles(events)[events[k]])]

\* for pkgTitle, count := range uniquePackages { go func(pkgTitle, count) }:
\* the goroutines started for the events, one per unique title.
AllPackagesGoroutines(events) ==
    LET unique == CountTitles(events)
    IN  [t \in DOMAIN unique |-> Task(t, unique[t])]

\* The count of the mentions and the loop that starts the goroutines.
DispatchAll ==
    /\ pc = "dispatchAll"
    /\ uniquePackages' = CountTitles(packageEvents)
    /\ tasks' = AllPackagesGoroutines(packageEvents)
    /\ pc' = "receive"
    /\ UNCHANGED <<requests, aggregated, packages, cutoff, rss, registry,
                   packageEvents, i, pkgs,
                   errs, alerted, ret>>

\* What a goroutine of fetchAllPackages does with the outcome r of
\* fetchPackage: an error is wrapped unless it is errUnpublished, a version
\* list is cut to the mention count.
AllPackagesTask(task, r) ==
    IF r.panic THEN [panic |-> TRUE, task |-> task]
    ELSE IF r.err # NoError
    THEN [panic |-> FALSE,
          task |-> [task EXCEPT !.pc = "errChannel",
                       !.err = IF ~ErrorsIs(r.err, errUnpublished)
                               THEN PackagePollError(task.pkgTitle, r.err)
                               ELSE r.err]]
    ELSE LET cut == SliceTo(r.pkgs, task.count)
         IN  IF cut.panic THEN [panic |-> TRUE, task |-> task]
             ELSE [panic |-> FALSE,
                   task |-> [task EXCEPT !.pc = "packageChannel", !.pkgs = cut.slice]]

\* Mutant of CriticalPackagesTask: the version list is cut to the newest.
CriticalPackagesTaskNewest(task, r) == AllPackagesTask([task EXCEPT !.count = 1], r)

\* What a goroutine of fetchCriticalPackages does with the outcome r.
CriticalPackagesTask(task, r) ==
    IF r.panic THEN [panic |-> TRUE, task |-> task]
    ELSE IF r.err # NoError
    THEN [panic |-> FALSE,
          task |-> [task EXCEPT !.pc = "errChannel",
                       !.err = IF ~ErrorsIs(r.err, errUnpublished)
                               THEN PackagePollError(task.pkgTitle, r.err)
                               ELSE r.err]]
    ELSE [panic |-> FALSE,
          task |-> [task EXCEPT !.pc = "packageChannel", !.pkgs = r.pkgs]]

\* A goroutine runs fetchPackage up to its send; a panic ends the process.
TaskFetch(t) ==
    /\ pc = "receive"
    /\ tasks[t].pc = "fetchPackage"
    /\ \E r \in fetchPackage(registry[tasks[t].pkgTitle], tasks[t].pkgTitle) :
        LET done == IF packages = Nil THEN AllPackagesTask(tasks[t], r)
                    ELSE CriticalPackagesTask(tasks[t], r)
        IN  IF done.panic
            THEN /\ pc' = "panic"
                 /\ tasks' = [tasks EXCEPT ![t].pc = "panic"]
            ELSE /\ tasks' = [tasks EXCEPT ![t] = done.task]
                 /\ UNCHANGED pc
    /\ requests' = [requests EXCEPT ![tasks[t].pkgTitle] = @ + 1]
    /\ UNCHANGED <<aggregated, packages, cutoff, rss, registry, packageEvents,
                   uniquePackages, i, pkgs, errs, alerted, ret>>

----------------------------------------------------------------------------
(* fetchCriticalPackages *)

\* for _, pkgTitle := range packages { go func(pkgTitle) }: one goroutine
\* per entry of the list.
CriticalPackagesGoroutines(list) == [k \in 1..Len(list) |-> Task(list[k], 0)]

\* Mutant of DispatchCritical: the feed is requested before the goroutines
\* of the list are started.
DispatchCriticalFeedFirst ==
    /\ pc = "Latest"
    /\ packages # Nil
    /\ requests' = [requests EXCEPT ![rssPath] = @ + 1]
    /\ tasks' = CriticalPackagesGoroutines(Deref(packages))
    /\ pc' = "receive"
    /\ UNCHANGED <<aggregated, packages, cutoff, rss, registry, packageEvents,
                   uniquePackages, i, pkgs, errs, alerted, ret>>

\* Latest calls fetchCriticalPackages, whose first loop starts the goroutines.
DispatchCritical ==
    /\ pc = "Latest"
    /\ packages # Nil
    /\ tasks' = CriticalPackagesGoroutines(Deref(packages))
    /\ pc' = "receive"
    /\ UNCHANGED <<requests, aggregated, packages, cutoff, rss, registry, packageEvents,
                   uniquePackages, i, pkgs, errs, alerted, ret>>

----------------------------------------------------------------------------
(* The receive loop of both aggregators *)

\* Mutant of Dispatched: the receive loop runs one time too few.
DispatchedButOne == Cardinality(DOMAIN tasks) - 1

\* The number of goroutines started: len(uniquePackages) or len(packages).
Dispatched == Cardinality(DOMAIN tasks)

\* for _, pkg := range npmPkgs { pkgs = append(pkgs, feeds.NewPackage(...)) }
RECURSIVE AppendPackages(_, _)
AppendPackages(list, npmPkgs) ==
    IF Len(npmPkgs) = 0 THEN list
    ELSE AppendPackages(
             Append(list, NewPackage(npmPkgs[1].CreatedDate, npmPkgs[1].Title,
                                     npmPkgs[1].Version, FeedName)),
             Tail(npmPkgs))

\* case npmPkgs := <-packageChannel: the send of goroutine t and the receive
\* of the loop meet. Reading through a nil pointer of the slice panics.
ReceivePackages(t) ==
    /\ pc = "receive"
    /\ i < Dispatched
    /\ tasks[t].pc = "packageChannel"
    /\ tasks' = [tasks EXCEPT ![t].pc = "done"]
    /\ IF \E k \in 1..Len(tasks[t].pkgs) : tasks[t].pkgs[k] = NilPackage
       THEN /\ pc' = "panic"
            /\ UNCHANGED <<pkgs, i>>
       ELSE /\ pkgs' = AppendPackages(pkgs, tasks[t].pkgs)
            /\ i' = i + 1
            /\ UNCHANGED pc
    /\ UNCHANGED <<requests, aggregated, packages, cutoff, rss, registry, packageEvents,
                   uniquePackages, errs, alerted, ret>>

\* Mutant of AllPackagesErr: the unpublished error is recorded too.
AllPackagesErrRecorded(list, err) == Append(list, err)

\* Mutant of AllPackagesErr: the error received last replaces the others.
AllPackagesErrLatest(list, err) ==
    IF ~ErrorsIs(err, errUnpublished) THEN <<err>> ELSE list

\* What case err := <-errChannel does with err in fetchAllPackages.
AllPackagesErr(list, err) ==
    IF ~ErrorsIs(err, errUnpublished) THEN Append(list, err) ELSE list

\* Mutant of CriticalPackagesErr: the unpublished error is dropped.
CriticalPackagesErrSilent(list, err) ==
    IF ~ErrorsIs(err, errUnpublished) THEN Append(list, err) ELSE list

\* What case err := <-errChannel does with err in fetchCriticalPackages.
CriticalPackagesErr(list, err) == Append(list, err)

ReceiveErr(t) ==
    /\ pc = "receive"
    /\ i < Dispatched
    /\ tasks[t].pc = "errChannel"
    /\ tasks' = [tasks EXCEPT ![t].pc = "done"]
    /\ errs' = IF packages = Nil THEN AllPackagesErr(errs, tasks[t].err)
               ELSE CriticalPackagesErr(errs, tasks[t].err)
    /\ i' = i + 1
    /\ UNCHANGED <<requests, aggregated, packages, cutoff, rss, registry, pc,
                   packageEvents,
                   uniquePackages, pkgs, alerted, ret>>

\* The loop has run len(uniquePackages) or len(packages) times: the
\* aggregator returns pkgs and errs to Latest.
AggregatorReturn ==
    /\ pc = "receive"
    /\ i >= Dispatched
    /\ pc' = "returned"
    /\ aggregated' = pkgs
    /\ UNCHANGED <<requests, packages, cutoff, rss, registry, packageEvents,
                   uniquePackages, tasks, i, pkgs, errs, alerted, ret>>

----------------------------------------------------------------------------
(* Latest, after the aggregator has returned *)

\* feeds.ApplyCutoff(pkgs, cutoff)
RECURSIVE ApplyCutoff(_, _)
ApplyCutoff(list, c) ==
    IF Len(list) = 0 THEN <<>>
    ELSE IF list[1].CreatedDate > c
         THEN <<list[1]>> \o ApplyCutoff(Tail(list), c)
         ELSE ApplyCutoff(Tail(list), c)

\* Mutant of NoPackagesPolled: the error replaces the accumulated ones.
NoPackagesPolledAlone(list) == <<ErrNoPackagesPolled>>

\* if len(pkgs) == 0 { return nil, append(errs, feeds.ErrNoPackagesPolled) }
NoPackagesPolled(list) == Append(list, ErrNoPackagesPolled)

\* Mutant of LatestNoPackages: Latest also returns early when an error was
\* collected, and the releases collected with it are lost.
LatestErrorsFirst ==
    /\ pc = "returned"
    /\ (Len(pkgs) = 0 \/ Len(errs) # 0)
    /\ ret' = [pkgs |-> <<>>, errs |-> NoPackagesPolled(errs)]
    /\ pc' = "done"
    /\ UNCHANGED <<requests, aggregated, packages, cutoff, rss, registry, packageEvents,
                   uniquePackages, tasks, i, pkgs, errs, alerted>>

\* Mutant of LatestNoPackages: the early return adds no error.
LatestNoPackagesSilent ==
    /\ pc = "returned"
    /\ Len(pkgs) = 0
    /\ ret' = [pkgs |-> <<>>, errs |-> errs]
    /\ pc' = "done"
    /\ UNCHANGED <<requests, aggregated, packages, cutoff, rss, registry, packageEvents,
                   uniquePackages, tasks, i, pkgs, errs, alerted>>

LatestNoPackages ==
    /\ pc = "returned"
    /\ Len(pkgs) = 0
    /\ ret' = [pkgs |-> <<>>, errs |-> NoPackagesPolled(errs)]
    /\ pc' = "done"
    /\ UNCHANGED <<requests, aggregated, packages, cutoff, rss, registry, packageEvents,
                   uniquePackages, tasks, i, pkgs, errs, alerted>>

\* Mutant of LatestSort: Latest may go on to the sort with no release.
LatestSortAlways ==
    /\ pc = "returned"
    /\ pkgs' = SliceStable(pkgs)
    /\ pc' = "sorted"
    /\ UNCHANGED <<requests, aggregated, packages, cutoff, rss, registry, packageEvents,
                   uniquePackages, tasks, i, errs, alerted, ret>>

LatestSort ==
    /\ pc = "returned"
    /\ Len(pkgs) # 0
    /\ pkgs' = SliceStable(pkgs)
    /\ pc' = "sorted"
    /\ UNCHANGED <<requests, aggregated, packages, cutoff, rss, registry, packageEvents,
                   uniquePackages, tasks, i, errs, alerted, ret>>

\* Mutant of LatestAlert: the detector is notified in both modes.
LatestAlertAlways ==
    /\ pc = "sorted"
    /\ alerted' = Append(alerted, [feed |-> FeedName, pkgs |-> pkgs])
    /\ pc' = "cutoff"
    /\ UNCHANGED <<requests, aggregated, packages, cutoff, rss, registry, packageEvents,
                   uniquePackages, tasks, i, pkgs, errs, ret>>

\* if feed.packages == nil { feed.lossyFeedAlerter.ProcessPackages(FeedName, pkgs) }
LatestAlert ==
    /\ pc = "sorted"
    /\ alerted' = IF packages = Nil
                  THEN Append(alerted, [feed |-> FeedName, pkgs |-> pkgs])
                  ELSE alerted
    /\ pc' = "cutoff"
    /\ UNCHANGED <<requests, aggregated, packages, cutoff, rss, registry, packageEvents,
                   uniquePackages, tasks, i, pkgs, errs, ret>>

\* Mutant of LatestCutoff: the sorted releases are returned unfiltered.
LatestUnfiltered ==
    /\ pc = "cutoff"
    /\ ret' = [pkgs |-> pkgs, errs |-> errs]
    /\ pc' = "done"
    /\ UNCHANGED <<requests, aggregated, packages, cutoff, rss, registry, packageEvents,
                   uniquePackages, tasks, i, pkgs, errs, alerted>>

\* pkgs = feeds.ApplyCutoff(pkgs, cutoff); return pkgs, errs
LatestCutoff ==
    /\ pc = "cutoff"
    /\ ret' = [pkgs |-> ApplyCutoff(pkgs, cutoff), errs |-> errs]
    /\ pc' = "done"
    /\ UNCHANGED <<requests, aggregated, packages, cutoff, rss, registry, packageEvents,
                   uniquePackages, tasks, i, pkgs, errs, alerted>>

----------------------------------------------------------------------------

Next ==
    \/ FetchPackageEvents
    \/ DispatchAll
    \/ DispatchCritical
    \/ \E t \in DOMAIN tasks : TaskFetch(t)
    \/ \E t \in DOMAIN tasks : ReceivePackages(t)
    \/ \E t \in DOMAIN tasks : ReceiveErr(t)
    \/ AggregatorReturn
    \/ LatestNoPackages
    \/ LatestSort
    \/ LatestAlert
    \/ LatestCutoff

Spec == Init /\ [][Next]_vars

\* Latest on a registry whose documents may hold malformed timestamps: the
\* feed answers, the list or the feed has at most MaxList entries and the
\* cutoff is older than every instant.
InitMalformed ==
    /\ packages \in {Nil} \cup {Ptr(l) : l \in PackageLists}
    /\ cutoff = 0
    /\ rss \in {[status |-> "ok", titles |-> s] : s \in SeqsUpTo(Names, MaxList)}
    /\ packages # Nil => rss = [status |-> "ok", titles |-> <<>>]
    /\ registry \in [Names -> AnyResponses]
    /\ \A p \in Names \ Asked(packages, rss) : registry[p].status = "404"
    /\ Start

SpecMalformed == InitMalformed /\ [][Next]_vars

----------------------------------------------------------------------------
(* What the properties speak of: the inputs of the call and its result *)

Discovery == packages = Nil
WatchList == packages # Nil
Returned == pc = "done"

\* The number of positions of the sequence s whose element satisfies P.
Count(s, P(_)) == Cardinality({k \in 1..Len(s) : P(s[k])})

\* The number of times title p is mentioned in the feed pull.
Mentions(p) == Cardinality({k \in 1..Len(rss.titles) : rss.titles[k] = p})

\* The number of entries of the configured list that name p.
Entries(p) ==
    IF packages = Nil THEN 0
    ELSE Cardinality({k \in 1..Len(Deref(packages)) : Deref(packages)[k] = p})

\* The number of resolution requests the call makes for p.
Requests(p) ==
    IF packages = Nil THEN (IF Mentions(p) > 0 THEN 1 ELSE 0) ELSE Entries(p)

\* The registry's view of package p.
Unpublished(p) ==
    registry[p].status = "ok" /\ "unpublished" \in DOMAIN registry[p].time
TransportFailure(p) == registry[p].status \in {"connfail", "404"}
History(p) ==
    IF registry[p].status = "ok"
    THEN DOMAIN registry[p].time \ (BookKeeping \cup {"unpublished"})
    ELSE {}
Published(p, v) == registry[p].time[v].t
Resolves(p) ==
    /\ registry[p].status = "ok"
    /\ ~Unpublished(p)
    /\ \A v \in History(p) : registry[p].time[v].kind = "rfc3339"
NewerThan(p, c) == {v \in History(p) : Published(p, v) > c}

\* The cutoff is older than every timestamp of the registry.
CutoffBeforeAll == \A p \in Names : \A v \in History(p) : cutoff < Published(p, v)

\* The releases of p in the result, and those of its version v.
ReleasesOf(p) == {k \in 1..Len(ret.pkgs) : ret.pkgs[k].Name = p}
ReleasesOfVersion(p, v) == {k \in ReleasesOf(p) : ret.pkgs[k].Version = v}
ErrorsOf(p) == {k \in 1..Len(ret.errs) : ret.errs[k].Name = p}

\* Every release of p in the result is a version of its history, at the
\* time the registry gives.
Genuine(p) ==
    \A k \in ReleasesOf(p) :
        /\ ret.pkgs[k].Version \in History(p)
        /\ ret.pkgs[k].CreatedDate = Published(p, ret.pkgs[k].Version)
        /\ ret.pkgs[k].Type = FeedName

----------------------------------------------------------------------------
(* C1 *)

\* The releases of p in the result are n distinct versions of its history,
\* none older than a version left out.
NewestOf(p, n) ==
    /\ Cardinality(ReleasesOf(p)) = n
    /\ Genuine(p)
    /\ \A v \in History(p) : Cardinality(ReleasesOfVersion(p, v)) <= 1
    /\ \A k \in ReleasesOf(p) : \A v \in History(p) :
          ReleasesOfVersion(p, v) = {} => Published(p, v) <= ret.pkgs[k].CreatedDate

\* C1: in discovery mode with a cutoff older than every timestamp, a package
\* mentioned k times in the feed whose history resolves to at least k
\* versions has exactly k releases in the result of Latest, and they are its
\* k newest versions, whatever the registry answers for the other packages.
C1_MentionCountNewest ==
    (Returned /\ Discovery /\ CutoffBeforeAll) =>
        \A p \in Names :
            (Mentions(p) >= 1 /\ Resolves(p)
                /\ Cardinality(History(p)) >= Mentions(p))
            => NewestOf(p, Mentions(p))

\* A package mentioned once with two versions of different dates, beside a
\* package that failed: one release, the newer version.
C1_Witness ==
    /\ Returned /\ Discovery /\ CutoffBeforeAll
    /\ \E p, q \in Names :
        /\ p # q
        /\ Mentions(p) = 1 /\ Resolves(p) /\ Cardinality(History(p)) = 2
        /\ \E v, w \in History(p) : Published(p, v) < Published(p, w)
        /\ Mentions(q) >= 1 /\ ~Resolves(q)
        /\ Cardinality(ReleasesOf(p)) = 1

----------------------------------------------------------------------------
(* What the result holds for a package that resolves *)

Min2(a, b) == IF a <= b THEN a ELSE b

\* Discovery mode: the releases of p are those of its Mentions(p) newest
\* versions that the cutoff keeps.
DiscoveredFrom(p) ==
    /\ Genuine(p)
    /\ \A v \in History(p) : Cardinality(ReleasesOfVersion(p, v)) <= 1
    /\ Cardinality(ReleasesOf(p)) =
           Min2(Mentions(p), Cardinality(NewerThan(p, cutoff)))

\* Watch-list mode: every version of p that the cutoff keeps is released
\* once per entry of the list that names p.
WatchedFrom(p) ==
    /\ Genuine(p)
    /\ \A v \in History(p) :
          Cardinality(ReleasesOfVersion(p, v)) =
              IF Published(p, v) > cutoff THEN Entries(p) ELSE 0

StillReturned(p) == IF packages = Nil THEN DiscoveredFrom(p) ELSE WatchedFrom(p)

----------------------------------------------------------------------------
(* C2 *)

\* C2: in discovery mode, a package of the feed that the registry reports as
\* unpublished has no release in the result of Latest and no error of the
\* result concerns it, and every other package of the feed that resolves
\* has its releases in the result.
C2_DiscoveryUnpublishedSilent ==
    (Returned /\ Discovery) =>
        \A p \in Names :
            (Mentions(p) >= 1 /\ Unpublished(p)) =>
                /\ ReleasesOf(p) = {}
                /\ ErrorsOf(p) = {}
                /\ \A k \in 1..Len(ret.errs) : ~ErrorsIs(ret.errs[k], errUnpublished)
                /\ \A q \in Names \ {p} :
                      (Mentions(q) >= 1 /\ Resolves(q)) => StillReturned(q)

\* An unpublished package beside one that resolves and is returned.
C2_Witness ==
    /\ Returned /\ Discovery
    /\ \E p, q \in Names :
        /\ Mentions(p) >= 1 /\ Unpublished(p) /\ History(p) # {}
        /\ Mentions(q) >= 1 /\ Resolves(q)
        /\ ReleasesOf(q) # {}
        /\ ret.errs = <<>>

----------------------------------------------------------------------------
(* C3 *)

----------------------------------------------------------------------------
(* C4 *)

\* The fetch of p, requested once, fails in transport and every other
\* requested package resolves.
OnlyFailure(p) ==
    /\ Requests(p) = 1
    /\ TransportFailure(p)
    /\ \A q \in Names \ {p} : Requests(q) >= 1 => Resolves(q)

\* The error of the result at position k is the PackagePollError for p,
\* carrying its name and the cause of the failure.
PollErrorFor(k, p) ==
    /\ ret.errs[k].type = "PackagePollError"
    /\ ret.errs[k].Name = p
    /\ ret.errs[k].Err = registry[p].status

\* The other requested packages have at least one version between them.
OthersHaveVersions(p) == \E q \in Names \ {p} : Requests(q) >= 1 /\ History(q) # {}

\* C4 as stated: in either mode, when the fetch of exactly one package among
\* N fails in transport and the others resolve, the result of Latest holds
\* the releases of the others and exactly one error, the PackagePollError
\* of the failing package.
C4_Original ==
    Returned =>
        \A p \in Names :
            OnlyFailure(p) =>
                /\ ReleasesOf(p) = {}
                /\ \A q \in Names \ {p} : Requests(q) >= 1 => StillReturned(q)
                /\ Len(ret.errs) = 1
                /\ PollErrorFor(1, p)

\* C4 as amended: the result holds the releases of the others and the
\* PackagePollError of the failing package as its first error; that error is
\* the only one when the others have a version between them, and is
\* followed by ErrNoPackagesPolled, and by nothing else, when they have none.
C4_OneFailureAmongN ==
    Returned =>
        \A p \in Names :
            OnlyFailure(p) =>
                /\ ReleasesOf(p) = {}
                /\ \A q \in Names \ {p} : Requests(q) >= 1 => StillReturned(q)
                /\ Len(ret.errs) >= 1
                /\ PollErrorFor(1, p)
                /\ ret.errs = IF OthersHaveVersions(p) THEN <<ret.errs[1]>>
                              ELSE <<ret.errs[1], ErrNoPackagesPolled>>

\* One package of two fails with 404 and the other's releases are returned
\* with the single error.
C4_Witness ==
    /\ Returned
    /\ \E p, q \in Names :
        /\ p # q
        /\ OnlyFailure(p) /\ registry[p].status = "404"
        /\ Requests(q) = 1
        /\ ReleasesOf(q) # {}
        /\ Len(ret.errs) = 1

----------------------------------------------------------------------------
(* C5 *)

FeedFails == packages = Nil /\ rss.status # "ok"

\* C5: in discovery mode, when the fetch of the feed fails no goroutine is
\* ever started, fetchAllPackages returns no release and that single error,
\* and Latest returns no release and two errors, the error of the feed
\* followed by ErrNoPackagesPolled.
C5_FeedFailure ==
    FeedFails =>
        /\ tasks = <<>>
        /\ pc \in {"Latest", "returned", "done"}
        /\ pc = "returned" =>
              /\ pkgs = <<>>
              /\ Len(errs) = 1
              /\ errs[1].Err = rss.status
              /\ errs[1].type # "ErrNoPackagesPolled"
        /\ pc = "done" =>
              /\ ret.pkgs = <<>>
              /\ Len(ret.errs) = 2
              /\ ret.errs[1] = errs[1]
              /\ ret.errs[1].Err = rss.status
              /\ ret.errs[2] = ErrNoPackagesPolled

C5_Witness ==
    /\ FeedFails
    /\ rss.status = "404"
    /\ pc = "done"
    /\ Len(ret.errs) = 2

----------------------------------------------------------------------------
(* C6 *)

\* No requested package resolves, and at least one is requested.
EveryTaskFails ==
    /\ \E p \in Names : Requests(p) >= 1
    /\ \A p \in Names : Requests(p) >= 1 => ~Resolves(p)

\* The errors the aggregator reports for p: one per request, none for an
\* unpublished package in discovery mode.
Reported(p) == IF packages = Nil /\ Unpublished(p) THEN 0 ELSE Requests(p)

\* C6: in either mode, when every dispatched task fails, Latest returns no
\* release and the errors accumulated for the failed packages, one per
\* reported failure, followed by ErrNoPackagesPolled as the last entry.
C6_AllFail ==
    (Returned /\ EveryTaskFails /\ ~FeedFails) =>
        /\ ret.pkgs = <<>>
        /\ ret.errs = Append(errs, ErrNoPackagesPolled)
        /\ \A p \in Names : Cardinality(ErrorsOf(p)) = Reported(p)
        /\ \A k \in 1..Len(errs) :
              /\ errs[k] # ErrNoPackagesPolled
              /\ errs[k].Name \in Names

\* Two packages fail and both errors precede ErrNoPackagesPolled.
C6_Witness ==
    /\ Returned /\ EveryTaskFails /\ ~FeedFails
    /\ Len(ret.errs) = 3
    /\ ret.errs[3] = ErrNoPackagesPolled

----------------------------------------------------------------------------
(* C7 *)

\* C7 as stated: the releases returned by Latest are sorted strictly
\* descending by publish timestamp.
C7_Original ==
    Returned =>
        \A k \in 1..(Len(ret.pkgs) - 1) :
            ret.pkgs[k].CreatedDate > ret.pkgs[k + 1].CreatedDate

\* C7 as amended: the releases returned by Latest are sorted descending by
\* publish timestamp, no release being older than the release after it;
\* releases of equal timestamp may follow one another.
C7_SortedDescending ==
    Returned =>
        \A k \in 1..(Len(ret.pkgs) - 1) :
            ret.pkgs[k].CreatedDate >= ret.pkgs[k + 1].CreatedDate

\* Three releases of two dates are returned newest first, two of them of
\* equal date next to each other.
C7_Witness ==
    /\ Returned
    /\ Len(ret.pkgs) = 3
    /\ ret.pkgs[1].CreatedDate > ret.pkgs[3].CreatedDate
    /\ \E k \in 1..2 : ret.pkgs[k].CreatedDate = ret.pkgs[k + 1].CreatedDate

----------------------------------------------------------------------------
(* C8 *)

\* The positions of the sorted sequence that the cutoff keeps.
Kept == {k \in 1..Len(pkgs) : pkgs[k].CreatedDate > cutoff}

\* The n-th kept position, in the order of the sorted sequence.
NthKept(n) == CHOOSE k \in Kept : Cardinality({j \in Kept : j <= k}) = n

\* C8: every release returned by Latest has a publish timestamp strictly
\* after the cutoff, every aggregated release strictly after the cutoff is
\* returned, and the releases returned are in the order of the sorted
\* sequence.
C8_CutoffFilter ==
    Returned =>
        /\ \A k \in 1..Len(ret.pkgs) : ret.pkgs[k].CreatedDate > cutoff
        /\ Len(ret.pkgs) = Cardinality(Kept)
        /\ \A n \in 1..Len(ret.pkgs) : ret.pkgs[n] = pkgs[NthKept(n)]

\* A release exactly at the cutoff is dropped and two newer ones are kept.
C8_Witness ==
    /\ Returned
    /\ \E k \in 1..Len(pkgs) : pkgs[k].CreatedDate = cutoff
    /\ Len(ret.pkgs) >= 2
    /\ Len(ret.pkgs) < Len(pkgs)

----------------------------------------------------------------------------
(* C9 *)

NoDuplicateRelease ==
    \A j, k \in 1..Len(ret.pkgs) :
        (ret.pkgs[j].Name = ret.pkgs[k].Name
            /\ ret.pkgs[j].Version = ret.pkgs[k].Version) => j = k

\* The configured list names no package twice.
NoRepeatedEntry == \A p \in Names : Entries(p) <= 1

\* C9 as stated: in either mode and for any input, no two releases of the
\* result of Latest share both the name and the version.
C9_Original == Returned => NoDuplicateRelease

\* C9 as amended: no two releases of the result of Latest share both the
\* name and the version in discovery mode, for any feed pull, and in
\* watch-list mode when the list names no package twice.
C9_UniqueReleases ==
    (Returned /\ (Discovery \/ NoRepeatedEntry)) => NoDuplicateRelease

\* A package mentioned twice in the feed with two versions is returned with
\* its two versions, once each.
C9_Witness ==
    /\ Returned /\ Discovery
    /\ \E p \in Names :
        /\ Mentions(p) = 2
        /\ Cardinality(ReleasesOf(p)) = 2
    /\ NoDuplicateRelease

----------------------------------------------------------------------------
(* C10 *)

\* C10: in watch-list mode one goroutine is started per entry of the list,
\* for the package of that entry, and with a cutoff older than every
\* timestamp the result of Latest holds every version of every package that
\* resolves, once per entry that names it, and nothing else.
C10_WatchListFullHistory ==
    WatchList =>
        /\ pc \notin {"Latest"} =>
              /\ DOMAIN tasks = 1..Len(Deref(packages))
              /\ \A k \in DOMAIN tasks : tasks[k].pkgTitle = Deref(packages)[k]
        /\ (Returned /\ CutoffBeforeAll) =>
              /\ \A p \in Names :
                    /\ Genuine(p)
                    /\ \A v \in History(p) :
                          Cardinality(ReleasesOfVersion(p, v)) =
                              IF Resolves(p) THEN Entries(p) ELSE 0
              /\ \A k \in 1..Len(ret.pkgs) : ret.pkgs[k].Name \in Names

\* A package with two versions listed twice: four releases.
C10_Witness ==
    /\ Returned /\ WatchList /\ CutoffBeforeAll
    /\ \E p \in Names :
        /\ Entries(p) = 2
        /\ Cardinality(History(p)) = 2
        /\ Cardinality(ReleasesOf(p)) = 4

----------------------------------------------------------------------------
(* C11 *)

\* C11: when Latest returns after the aggregator has run, nothing is dropped
\* in either direction: every requested package that resolves has its
\* releases in the result (those the cutoff keeps) and no error, and every
\* requested package that fails has no release and one error per request,
\* except that an unpublished package has no error in discovery mode.
C11_NothingDropped ==
    (Returned /\ ~FeedFails) =>
        \A p \in Names :
            Requests(p) >= 1 =>
                IF Resolves(p)
                THEN StillReturned(p) /\ ErrorsOf(p) = {}
                ELSE /\ ReleasesOf(p) = {}
                     /\ Cardinality(ErrorsOf(p)) = Reported(p)

\* One package resolved and released beside one whose fetch failed: the
\* result holds the releases of the first and the error of the second.
C11_Witness ==
    /\ Returned
    /\ \E p, q \in Names :
        /\ Requests(p) >= 1 /\ Resolves(p) /\ ReleasesOf(p) # {}
        /\ Requests(q) >= 1 /\ TransportFailure(q) /\ ErrorsOf(q) # {}
        /\ Len(ret.errs) = Requests(q)

----------------------------------------------------------------------------
(* C12 *)

\* The last error of the result is ErrNoPackagesPolled.
EndsWithNoPackagesPolled ==
    /\ Len(ret.errs) >= 1
    /\ ret.errs[Len(ret.errs)] = ErrNoPackagesPolled

\* C12 as stated: whenever Latest returns no release, whatever the reason,
\* the last error of the result is ErrNoPackagesPolled.
C12_Original == (Returned /\ ret.pkgs = <<>>) => EndsWithNoPackagesPolled

\* C12: when Latest returns and the aggregator collected no release, the
\* result has no release and its errors are the accumulated ones followed by
\* ErrNoPackagesPolled; when the aggregator collected a release, the errors
\* are the accumulated ones and ErrNoPackagesPolled is not among them, even
\* if the cutoff then drops every release.
C12_NoPackagesPolledLast ==
    Returned =>
        IF aggregated = <<>>
        THEN /\ ret.pkgs = <<>>
             /\ ret.errs = Append(errs, ErrNoPackagesPolled)
             /\ \A k \in 1..Len(errs) : errs[k] # ErrNoPackagesPolled
        ELSE /\ ret.errs = errs
             /\ \A k \in 1..Len(ret.errs) : ret.errs[k] # ErrNoPackagesPolled

\* No release collected and two errors accumulated: ErrNoPackagesPolled is
\* the third.
C12_Witness ==
    /\ Returned
    /\ aggregated = <<>>
    /\ Len(errs) = 2
    /\ Len(ret.errs) = 3
    /\ EndsWithNoPackagesPolled

----------------------------------------------------------------------------
(* C13 *)

\* The sequences s and u hold the same elements the same number of times.
SameElements(s, u) ==
    /\ Len(s) = Len(u)
    /\ \A k \in 1..Len(s) :
          Cardinality({j \in 1..Len(s) : s[j] = s[k]}) =
              Cardinality({j \in 1..Len(u) : u[j] = s[k]})

\* No element of s is older than the element after it.
NonIncreasing(s) ==
    \A k \in 1..(Len(s) - 1) : s[k].CreatedDate >= s[k + 1].CreatedDate

StrictlyAfterCutoff(pkg) == pkg.CreatedDate > cutoff

\* C13: the detector is never notified in watch-list mode. In discovery
\* mode it is notified once, and only once Latest has sorted the collected
\* releases and before it filters them: not yet when the sort has just run,
\* done when the filter is about to run. What it receives is the feed name
\* and all the collected releases in sorted order, and the result of Latest
\* is what remains of that sequence after the cutoff.
C13_DetectorNotified ==
    /\ WatchList => alerted = <<>>
    /\ Discovery =>
          IF pc \in {"cutoff", "done"} /\ aggregated # <<>>
          THEN /\ Len(alerted) = 1
               /\ alerted[1].feed = FeedName
               /\ SameElements(alerted[1].pkgs, aggregated)
               /\ NonIncreasing(alerted[1].pkgs)
               /\ pc = "cutoff" => ret.pkgs = <<>>
               /\ pc = "done" =>
                     ret.pkgs = SelectSeq(alerted[1].pkgs, StrictlyAfterCutoff)
          ELSE alerted = <<>>

\* Discovery mode: the detector was given two releases and the cutoff
\* dropped one of them from the result.
C13_Witness ==
    /\ Returned /\ Discovery
    /\ Len(alerted) = 1
    /\ Len(alerted[1].pkgs) = 2
    /\ Len(ret.pkgs) = 1

----------------------------------------------------------------------------
(* C14 *)

\* The aggregator has run its receive loop to the end and returned.
AggregatorHasReturned ==
    pc \in {"returned", "sorted", "cutoff", "done"} /\ ~FeedFails

\* The number of releases the tasks of the set S sent on packageChannel.
RECURSIVE ReleasesSent(_)
ReleasesSent(S) ==
    IF S = {} THEN 0
    ELSE LET t == CHOOSE x \in S : TRUE
         IN  Len(tasks[t].pkgs) + ReleasesSent(S \ {t})

\* The tasks that sent an error, and those whose error the aggregator of
\* discovery mode receives and does not record.
SentError == {t \in DOMAIN tasks : tasks[t].err # NoError}
Suppressed ==
    {t \in SentError : Discovery /\ ErrorsIs(tasks[t].err, errUnpublished)}

\* C14: in both modes, once the aggregator has returned, every dispatched
\* task has had its one send received (none is still fetching or waiting to
\* send), the number of receipts is the number of tasks, every release sent
\* is among the collected ones and every error sent is among the collected
\* errors, except the unpublished errors of discovery mode, which were
\* received and not recorded.
C14_FanIn ==
    AggregatorHasReturned =>
        /\ \A t \in DOMAIN tasks : tasks[t].pc = "done"
        /\ i = Cardinality(DOMAIN tasks)
        /\ Len(aggregated) = ReleasesSent(DOMAIN tasks \ SentError)
        /\ Len(errs) = Cardinality(SentError \ Suppressed)
        /\ \A t \in SentError \ Suppressed :
              \E k \in 1..Len(errs) : errs[k] = tasks[t].err

\* Discovery mode, two tasks: one sent the unpublished error, which was
\* received and not recorded, the other sent a release.
C14_Witness ==
    /\ AggregatorHasReturned /\ Discovery
    /\ i = 2
    /\ Cardinality(Suppressed) = 1
    /\ errs = <<>>
    /\ Len(aggregated) = 1

----------------------------------------------------------------------------
(* C15 *)

\* C15 as stated: whatever fetchPackage returns to a dispatched goroutine
\* (an error, the unpublished error, or a version list of any length
\* against the mention count), the goroutine goes on to its one send: none
\* ends without having sent, and once the aggregator has returned each has
\* had its send received.
C15_Original ==
    \A t \in DOMAIN tasks :
        /\ tasks[t].pc # "panic"
        /\ AggregatorHasReturned => tasks[t].pc = "done"

----------------------------------------------------------------------------
(* C16 *)

\* C16 as stated, in the form a finite run refutes: every fetch returns
\* (TaskFetch and FetchPackageEvents are always able to complete), and in
\* every state in which Latest has not returned some step of the call can
\* be taken: the call is never stuck, neither on its channels nor otherwise.
\* No behaviour of the call repeats a state, so a call that is never stuck
\* returns.
C16_Original == pc # "done" => ENABLED Next

----------------------------------------------------------------------------
(* C17 *)

\* The goroutines dispatched for package p.
TasksFor(p) == {t \in DOMAIN tasks : tasks[t].pkgTitle = p}

\* C17: in discovery mode, as long as the feed fetch has not completed, and
\* for good when it failed, no goroutine exists and no package document has
\* been requested; once the goroutines are dispatched there is one for each
\* name the feed mentions, however often, and none for any other name; no
\* package document is ever requested twice, and once the aggregator has
\* returned each mentioned one has been requested exactly once, the feed
\* once, and a package whose fetch failed has one error.
C17_DispatchDiscipline ==
    Discovery =>
        /\ (pc = "Latest" \/ FeedFails) =>
              /\ tasks = <<>>
              /\ \A p \in Names : requests[p] = 0
        /\ pc = "Latest" => requests[rssPath] = 0
        /\ pc # "Latest" => requests[rssPath] = 1
        /\ \A p \in Names :
              /\ requests[p] <= 1
              /\ requests[p] = Cardinality({t \in TasksFor(p) :
                                               tasks[t].pc # "fetchPackage"})
              /\ (pc \notin {"Latest", "dispatchAll"} /\ ~FeedFails) =>
                    Cardinality(TasksFor(p)) = IF Mentions(p) >= 1 THEN 1 ELSE 0
              /\ AggregatorHasReturned =>
                    /\ requests[p] = IF Mentions(p) >= 1 THEN 1 ELSE 0
                    /\ Cardinality({k \in 1..Len(errs) : errs[k].Name = p}) <= 1

\* A package mentioned twice whose fetch failed: one request, one error.
C17_Witness ==
    /\ Returned /\ Discovery
    /\ \E p \in Names :
        /\ Mentions(p) = 2
        /\ TransportFailure(p)
        /\ requests[p] = 1
        /\ Cardinality(ErrorsOf(p)) = 1

----------------------------------------------------------------------------
(* C18 *)

\* fetchPackage has returned to goroutine t. In watch-list mode the
\* goroutine sends what fetchPackage returned as it is, so the task holds
\* the return values.
ResolverReturned(t) == tasks[t].pc \in {"packageChannel", "errChannel", "done"}

\* The list holds one record per version of the history of p and no other,
\* each with the name of p and the instant the time map gives.
OneRecordPerVersion(list, p) ==
    /\ Len(list) = Cardinality(History(p))
    /\ \A v \in History(p) :
          \E k \in 1..Len(list) :
              /\ list[k].Version = v
              /\ list[k].Title = p
              /\ list[k].CreatedDate = Published(p, v)

\* C18: for a document with a time map, when the map holds the unpublished
\* marker fetchPackage returns the unpublished error and no record,
\* whatever the other values of the map are (it does not panic on them,
\* in either mode); otherwise, the timestamps of the versions being
\* instants, it returns no error and one record per key of the map other
\* than created and modified, in non-increasing order of timestamp.
C18_VersionResolver ==
    \A t \in DOMAIN tasks :
        LET p == tasks[t].pkgTitle
        IN  /\ Unpublished(p) =>
                  /\ tasks[t].pc # "panic"
                  /\ ResolverReturned(t) =>
                        /\ tasks[t].pkgs = <<>>
                        /\ ErrorsIs(tasks[t].err, errUnpublished)
                        /\ tasks[t].err.Name = p
            /\ (WatchList /\ Resolves(p) /\ ResolverReturned(t)) =>
                  /\ tasks[t].err = NoError
                  /\ OneRecordPerVersion(tasks[t].pkgs, p)
                  /\ NonIncreasing(tasks[t].pkgs)

\* Watch-list mode: one package is unpublished and lists a version whose
\* value is no string, and got the unpublished error; another has two
\* versions of different dates and got two records.
C18_Witness ==
    /\ WatchList
    /\ \E t, u \in DOMAIN tasks :
        /\ ResolverReturned(t) /\ ResolverReturned(u)
        /\ Unpublished(tasks[t].pkgTitle)
        /\ \E v \in History(tasks[t].pkgTitle) :
              registry[tasks[t].pkgTitle].time[v].kind = "object"
        /\ ErrorsIs(tasks[t].err, errUnpublished)
        /\ Resolves(tasks[u].pkgTitle)
        /\ Len(tasks[u].pkgs) = 2
        /\ tasks[u].pkgs[1].CreatedDate > tasks[u].pkgs[2].CreatedDate

----------------------------------------------------------------------------
(* C19 *)

\* The document of p has a time map without the unpublished marker and a
\* version whose timestamp is no instant.
Malformed(p) ==
    /\ registry[p].status = "ok"
    /\ ~Unpublished(p)
    /\ \E v \in History(p) : registry[p].time[v].kind # "rfc3339"

\* C19 as stated: a package with a version whose timestamp does not parse,
\* whatever the value is, is an error outcome of its own task only: the
\* task does not end without its send, and when Latest returns the package
\* has no release and one PackagePollError per request naming it, while
\* every other requested package that resolves has its releases.
C19_Original ==
    /\ \A t \in DOMAIN tasks :
          Malformed(tasks[t].pkgTitle) => tasks[t].pc # "panic"
    /\ Returned =>
          \A p \in Names :
              (Requests(p) >= 1 /\ Malformed(p)) =>
                  /\ ReleasesOf(p) = {}
                  /\ Cardinality(ErrorsOf(p)) = Requests(p)
                  /\ \A k \in ErrorsOf(p) : ret.errs[k].type = "PackagePollError"
                  /\ \A q \in Names \ {p} :
                        (Requests(q) >= 1 /\ Resolves(q)) => StillReturned(q)

----------------------------------------------------------------------------
(* C20 *)

\* The elements of s published at instant d, in the order of s.
OfDate(s, d) == SelectSeq(s, LAMBDA pkg : pkg.CreatedDate = d)

\* The releases goroutine t sent stand in the collected sequence as one
\* block, in the order fetchPackage gave them.
AppendedAsSent(t) ==
    LET sent == tasks[t].pkgs
    IN  \E off \in 0..(Len(aggregated) - Len(sent)) :
            \A k \in 1..Len(sent) :
                aggregated[off + k] =
                    NewPackage(sent[k].CreatedDate, sent[k].Title,
                               sent[k].Version, FeedName)

\* C20: the aggregator appends what each goroutine sent as one block in the
\* order fetchPackage gave it, the blocks in the order of receipt; once
\* Latest has sorted, the releases of any one instant stand in the order in
\* which the aggregator collected them, and in the result so do those of
\* every instant after the cutoff.
C20_SortStable ==
    (pc \in {"sorted", "cutoff", "done"} /\ aggregated # <<>>) =>
        /\ \A t \in DOMAIN tasks : AppendedAsSent(t)
        /\ \A d \in Times : OfDate(pkgs, d) = OfDate(aggregated, d)
        /\ pc = "done" =>
              \A d \in Times :
                  OfDate(ret.pkgs, d) = IF d > cutoff THEN OfDate(aggregated, d)
                                        ELSE <<>>

\* Three releases were returned in another order than collected, the last
\* two different and of the same instant.
C20_Witness ==
    /\ Returned
    /\ Len(ret.pkgs) = 3
    /\ ret.pkgs # aggregated
    /\ ret.pkgs[2].CreatedDate = ret.pkgs[3].CreatedDate
    /\ ret.pkgs[2] # ret.pkgs[3]

----------------------------------------------------------------------------
(* C21 *)

\* The positions <<t, k>> of the releases the goroutines sent, and the
\* release the aggregator makes of the one at position tk.
Sent == UNION {{<<t, k>> : k \in 1..Len(tasks[t].pkgs)} : t \in DOMAIN tasks}
Release(tk) ==
    LET pkg == tasks[tk[1]].pkgs[tk[2]]
    IN  NewPackage(pkg.CreatedDate, pkg.Title, pkg.Version, FeedName)

\* What goroutine t would send for each return of fetchPackage the
\* responses allow (one per order in which the time map can be ranged over).
Outcomes(t) ==
    LET fresh == Task(tasks[t].pkgTitle, tasks[t].count)
    IN  {IF packages = Nil THEN AllPackagesTask(fresh, r).task
         ELSE CriticalPackagesTask(fresh, r).task :
            r \in fetchPackage(registry[tasks[t].pkgTitle], tasks[t].pkgTitle)}

\* The versions a task outcome contributes to the result.
Contribution(task) ==
    {task.pkgs[k].Version :
        k \in {j \in 1..Len(task.pkgs) : task.pkgs[j].CreatedDate > cutoff}}
Dates(task) == [k \in 1..Len(task.pkgs) |-> task.pkgs[k].CreatedDate]

\* The responses fix which versions goroutine t contributes.
Determined(t) == \A o \in Outcomes(t) : Contribution(o) = Contribution(tasks[t])

\* No two versions of p have the same timestamp.
NoTies(p) ==
    \A v, w \in History(p) : v # w => Published(p, v) # Published(p, w)

\* The result of Latest is made of what the goroutines sent, whatever the
\* order of receipt: each release sent is returned as often as it was sent
\* if the cutoff keeps it and not at all otherwise, nothing else is
\* returned, and the errors are those sent and recorded, with
\* ErrNoPackagesPolled when no release was sent.
MadeOfWhatWasSent ==
    /\ \A tk \in Sent :
          Cardinality({k \in 1..Len(ret.pkgs) : ret.pkgs[k] = Release(tk)}) =
              IF Release(tk).CreatedDate > cutoff
              THEN Cardinality({s \in Sent : Release(s) = Release(tk)})
              ELSE 0
    /\ Len(ret.pkgs) = Cardinality({s \in Sent : Release(s).CreatedDate > cutoff})
    /\ \A t \in SentError \ Suppressed :
          Cardinality({k \in 1..Len(ret.errs) : ret.errs[k] = tasks[t].err}) =
              Cardinality({u \in SentError \ Suppressed : tasks[u].err = tasks[t].err})
    /\ Len(ret.errs) =
          Cardinality(SentError \ Suppressed) + (IF Sent = {} THEN 1 ELSE 0)
    /\ Sent = {} => ret.errs[Len(ret.errs)] = ErrNoPackagesPolled

\* C21 as stated: with the responses and the cutoff fixed, every run of
\* Latest returns the same releases and the same errors, in whatever order
\* the goroutines complete: the result is made of what the goroutines sent,
\* and the responses fix what each of them contributes.
C21_Original ==
    (Returned /\ ~FeedFails) =>
        /\ MadeOfWhatWasSent
        /\ \A t \in DOMAIN tasks : Determined(t)

\* C21: when Latest returns, its result is made of what the goroutines
\* sent, whatever the order of receipt, in non-increasing order of
\* timestamp; the responses fix the error of each goroutine and the
\* timestamps of the releases it sends, and they fix the versions too in
\* watch-list mode and for every package without two versions of the same
\* timestamp. In discovery mode, which of the versions of one timestamp
\* are among those sent can differ from run to run.
C21_InterleavingIndependence ==
    (Returned /\ ~FeedFails) =>
        /\ MadeOfWhatWasSent
        /\ NonIncreasing(ret.pkgs)
        /\ \A t \in DOMAIN tasks :
              /\ \A o \in Outcomes(t) :
                    /\ o.err = tasks[t].err
                    /\ Dates(o) = Dates(tasks[t])
              /\ (WatchList \/ NoTies(tasks[t].pkgTitle)) => Determined(t)

\* Two goroutines for two packages, received in the other order than
\* dispatched: the releases of the second were collected before the release
\* of the first, and all three are returned.
C21_Witness ==
    /\ Returned /\ WatchList
    /\ Len(Deref(packages)) = 2
    /\ tasks[1].pkgTitle # tasks[2].pkgTitle
    /\ Len(tasks[1].pkgs) = 1
    /\ Len(tasks[2].pkgs) = 2
    /\ aggregated[1].Name = tasks[2].pkgTitle
    /\ Len(ret.pkgs) = 3

----------------------------------------------------------------------------
(* C22 *)

\* Latest is configured with a list that has no entry.
EmptyWatchList == packages = Ptr(<<>>)

\* C22: with a configured list that is empty, Latest takes the watch-list
\* branch: at no point of the call has the feed been requested, a goroutine
\* been started, a package document been requested or the detector been
\* notified, and Latest returns no release and the single error
\* ErrNoPackagesPolled.
C22_EmptyWatchList ==
    EmptyWatchList =>
        /\ WatchList
        /\ \A path \in Paths : requests[path] = 0
        /\ tasks = <<>>
        /\ uniquePackages = <<>>
        /\ alerted = <<>>
        /\ pc \in {"Latest", "receive", "returned", "done"}
        /\ Returned => ret = [pkgs |-> <<>>, errs |-> <<ErrNoPackagesPolled>>]

\* Latest has returned for an empty list, after the receive loop of
\* fetchCriticalPackages ran zero times.
C22_Witness ==
    /\ EmptyWatchList
    /\ Returned
    /\ i = 0
    /\ aggregated = <<>>
    /\ Len(ret.errs) = 1

----------------------------------------------------------------------------
(* C23 *)

\* Every package of the feed or of the list failed or is unpublished.
NoneResolves == \A p \in Names : Requests(p) >= 1 => ~Resolves(p)

\* C23: once the aggregator has handed Latest no release (the feed fetch
\* failed, or no goroutine sent one), Latest never reaches the sort, the
\* notification or the filter, the detector has not been notified and the
\* collected list is still empty when Latest returns; this is the case
\* whenever the feed fetch failed or no requested package resolves. The
\* detector is never notified twice, and when Latest returns in discovery
\* mode after at least one release was collected it has been notified
\* exactly once.
C23_DetectorSkipped ==
    /\ Len(alerted) <= 1
    /\ (pc \in {"returned", "sorted", "cutoff", "done"} /\ aggregated = <<>>) =>
          /\ pc \in {"returned", "done"}
          /\ alerted = <<>>
          /\ pkgs = <<>>
          /\ Returned => ret.pkgs = <<>>
    /\ (Returned /\ (FeedFails \/ NoneResolves)) => aggregated = <<>>
    /\ (Returned /\ Discovery /\ aggregated # <<>>) => Len(alerted) = 1

\* Discovery mode: the feed named two packages, one failed and one is
\* unpublished; Latest returned and the detector was not notified.
C23_Witness ==
    /\ Returned /\ Discovery /\ ~FeedFails
    /\ \E p, q \in Names :
          /\ Mentions(p) >= 1 /\ TransportFailure(p)
          /\ Mentions(q) >= 1 /\ Unpublished(q)
    /\ aggregated = <<>>
    /\ alerted = <<>>

====
